---- MODULE Spec2Model ----
(***************************************************************************)
(* The stock-analysis dashboard: the presentation component                *)
(* (src/app/page.tsx, Home) and the forwarding route                        *)
(* (src/app/api/analyze/route.ts, POST), composed with the external        *)
(* analysis service, which is the environment.                             *)
(***************************************************************************)
EXTENDS Integers, Sequences, FiniteSets, TLC

VARIABLES symbol, timeframe, loading, result, error, reqs, settled

vars == <<symbol, timeframe, loading, result, error, reqs, settled>>

\* The presentation never has more page requests in flight than this cap.
MaxInFlight == 2

(***************************************************************************)
(* JavaScript / JSON values.                                               *)
(***************************************************************************)
Undefined == [k |-> "undefined"]
JNull == [k |-> "null"]
JStr(s) == [k |-> "string", s |-> s]
JNum(n) == [k |-> "number", n |-> n]
JObj(f) == [k |-> "object", f |-> f]

\* JavaScript truthiness, as used by `!symbol`, `a || b`, `error &&`.
Truthy(v) ==
    CASE v.k = "undefined" -> FALSE
      [] v.k = "null" -> FALSE
      [] v.k = "string" -> v.s # ""
      [] v.k = "number" -> v.n # 0
      [] OTHER -> TRUE

\* v is null or undefined: reading a property of it throws a TypeError.
Nullish(v) == v.k \in {"null", "undefined"}

\* Property read v.field (or v?.field) of a non-nullish value.
Get(v, field) ==
    IF v.k = "object" /\ field \in DOMAIN v.f THEN v.f[field] ELSE Undefined

\* A body on the wire: JSON text of a value, an empty body, or text that
\* is not JSON.
JsonText(v) == [t |-> "json", v |-> v]
EmptyText == [t |-> "empty"]
GarbageText == [t |-> "garbage"]

\* JSON.stringify: an object's undefined-valued properties are left out.
JSONstringify(v) ==
    IF v.k = "object"
    THEN JsonText(JObj([x \in {y \in DOMAIN v.f : v.f[y].k # "undefined"} |-> v.f[x]]))
    ELSE JsonText(v)

\* JSON.parse / Body.json(): the value, or a SyntaxError with its message.
JSONparse(txt) ==
    CASE txt.t = "json" -> [ok |-> TRUE, v |-> txt.v]
      [] txt.t = "empty" -> [ok |-> FALSE, msg |-> "Unexpected end of JSON input"]
      [] OTHER -> [ok |-> FALSE, msg |-> "Unexpected token"]

\* String.prototype.toUpperCase on the strings the user types.
ToUpperCase(s) ==
    CASE s = "aapl" -> "AAPL"
      [] s = "Aapl" -> "AAPL"
      [] OTHER -> s

(***************************************************************************)
(* The forwarding route.                                                   *)
(***************************************************************************)
StatusOk == 200
StatusBadRequest == 400
StatusInternalError == 500

\* NextResponse.json(data, {status}): the body is the JSON text of data.
NextResponseJson(data, status) == [status |-> status, body |-> JSONstringify(data)]

\* Faulty variant of CatchReply: the exception's message is not reported.
CatchReplyNoMessage(msg) ==
    NextResponseJson(JObj([error |-> JStr("Internal server error")]),
                     StatusInternalError)

\* The catch block: any exception becomes a 500 carrying its message.
CatchReply(msg) ==
    NextResponseJson(JObj([error |-> JStr("Internal server error: " \o msg)]),
                     StatusInternalError)

\* Faulty variant of SymbolRefused: only an absent symbol is refused.
SymbolRefusedOnlyAbsent(sym) == sym.k = "undefined"

\* `if (!symbol)`: the request is refused.
SymbolRefused(sym) == ~Truthy(sym)

\* Faulty variant of OutboundBody: the timeframe is not forwarded.
OutboundBodySymbolOnly(sym, tf) == JSONstringify(JObj([symbol |-> sym]))

\* JSON.stringify({ symbol, timeframe }): the body of the outbound call.
OutboundBody(sym, tf) == JSONstringify(JObj([symbol |-> sym, timeframe |-> tf]))

\* POST up to the outbound fetch: a reply, or the body of the fetch.
PostReceive(inbound) ==
    LET parsed == JSONparse(inbound) IN
    IF ~parsed.ok THEN [kind |-> "reply", reply |-> CatchReply(parsed.msg)]
    ELSE IF Nullish(parsed.v)
    THEN [kind |-> "reply",
          reply |-> CatchReply("Cannot destructure property 'symbol' of null")]
    ELSE IF SymbolRefused(Get(parsed.v, "symbol"))
    THEN [kind |-> "reply",
          reply |-> NextResponseJson(JObj([error |-> JStr("Symbol is required")]),
                                     StatusBadRequest)]
    ELSE [kind |-> "fetch",
          body |-> OutboundBody(Get(parsed.v, "symbol"), Get(parsed.v, "timeframe"))]

\* Response.ok
ResponseOk(status) == status >= 200 /\ status < 300

\* The `!response.ok` branch.
ErrorReply(response) ==
    LET parsed == JSONparse(response.body)
        errorData == IF parsed.ok THEN parsed.v ELSE JObj([error |-> JStr("Unknown error")])
    IN  IF Nullish(errorData)
        THEN CatchReply("Cannot read properties of null (reading 'error')")
        ELSE NextResponseJson(
                 JObj([error |-> IF Truthy(Get(errorData, "error"))
                                 THEN Get(errorData, "error")
                                 ELSE JStr("Failed to analyze stock")]),
                 response.status)

\* Faulty variant of SuccessReply: the upstream status is relayed too.
SuccessReplyRelaysStatus(response) ==
    LET parsed == JSONparse(response.body) IN
    IF parsed.ok
    THEN NextResponseJson(parsed.v, response.status)
    ELSE CatchReply(parsed.msg)

\* The success branch: parse the upstream body and relay it.
SuccessReply(response) ==
    LET parsed == JSONparse(response.body) IN
    IF parsed.ok THEN NextResponseJson(parsed.v, StatusOk) ELSE CatchReply(parsed.msg)

\* POST after the outbound fetch settled (it threw, or returned a response).
PostAfterFetch(outcome) ==
    IF outcome.threw THEN CatchReply(outcome.msg)
    ELSE IF ~ResponseOk(outcome.status) THEN ErrorReply(outcome)
    ELSE SuccessReply(outcome)

(***************************************************************************)
(* The presentation component.                                             *)
(***************************************************************************)
\* Faulty variants of Disabled: the control ignores loading, or ignores an
\* empty symbol.
DisabledIgnoresLoading(ld, sym) == sym = ""

DisabledIgnoresSymbol(ld, sym) == ld

\* The submit control's `disabled={loading || !symbol}`.
Disabled(ld, sym) == ld \/ sym = ""

\* Faulty variant of AnalyzeStart: the previous result is not cleared.
AnalyzeStartKeepsResult(prevResult, prevError) ==
    [loading |-> TRUE, error |-> JStr(""), result |-> prevResult]

\* analyzeStock before the await: setLoading(true); setError(''); setResult(null).
AnalyzeStart(prevResult, prevError) ==
    [loading |-> TRUE, error |-> JStr(""), result |-> JNull]

\* The body axios.post sends: the JSON text of { symbol, timeframe }.
AxiosRequestBody(sym, tf) ==
    JSONstringify(JObj([symbol |-> JStr(sym), timeframe |-> JStr(tf)]))

\* axios settles the promise: resolved for a 2xx status, rejected otherwise;
\* the data is the parsed body (the raw text if it is not JSON).
AxiosSettle(reply) ==
    LET parsed == JSONparse(reply.body) IN
    [resolved |-> ResponseOk(reply.status),
     hasResponse |-> TRUE,
     data |-> IF parsed.ok THEN parsed.v ELSE JStr("")]

\* axios rejects without a response (the request never reached the route).
AxiosNetworkError == [resolved |-> FALSE, hasResponse |-> FALSE, data |-> Undefined]

\* Faulty variant of AnalyzeResolve: the result is stored but loading is
\* not cleared.
AnalyzeResolveKeepsLoading(data, prevError) ==
    [loading |-> TRUE, result |-> data, error |-> prevError]

\* try: setResult(response.data); finally: setLoading(false).
AnalyzeResolve(data, prevError) ==
    [loading |-> FALSE, result |-> data, error |-> prevError]

\* Faulty variant of AnalyzeReject: no finally block, so a rejection leaves
\* loading set.
AnalyzeRejectNoFinally(hasResponse, data, prevResult) ==
    LET supplied == IF hasResponse /\ ~Nullish(data) THEN Get(data, "error") ELSE Undefined
    IN  [loading |-> TRUE,
         result |-> prevResult,
         error |-> IF Truthy(supplied) THEN supplied ELSE JStr("Failed to analyze stock")]

\* catch: setError(err.response?.data?.error || 'Failed to analyze stock');
\* finally: setLoading(false).
AnalyzeReject(hasResponse, data, prevResult) ==
    LET supplied == IF hasResponse /\ ~Nullish(data) THEN Get(data, "error") ELSE Undefined
    IN  [loading |-> FALSE,
         result |-> prevResult,
         error |-> IF Truthy(supplied) THEN supplied ELSE JStr("Failed to analyze stock")]

(***************************************************************************)
(* The environment: what the user types, what other clients send to the    *)
(* route, and what the analysis service answers.                           *)
(***************************************************************************)
Typed == {"", " ", "aapl", "Aapl"}
Timeframes == {"15m", "1d"}

\* Bodies a client other than the page posts to the route.
InboundBodies ==
    { GarbageText,
      JsonText(JNull),
      JsonText(JObj([timeframe |-> JStr("1d")])),
      JsonText(JObj([symbol |-> JStr(""), timeframe |-> JStr("15m")])),
      JsonText(JObj([symbol |-> JNum(0), timeframe |-> JStr("15m")])),
      JsonText(JObj([symbol |-> JStr(" "), timeframe |-> JStr("15m")])),
      JsonText(JObj([symbol |-> JStr("AAPL"), timeframe |-> JStr("15m")])),
      JsonText(JObj([symbol |-> JStr("AAPL")])),
      JsonText(JObj([symbol |-> JStr("AAPL"), timeframe |-> JStr("15m"),
                     extra |-> JStr("x")])) }

AnalysisResult ==
    JObj([symbol |-> JStr("AAPL"), timeframe |-> JStr("15m"), signal |-> JStr("BUY")])

UpstreamStatuses == {200, 201, 503}

UpstreamBodies ==
    { JsonText(AnalysisResult),
      JsonText(JObj([error |-> JStr("rate limited")])),
      JsonText(JObj([detail |-> JStr("no data")])),
      JsonText(JNull),
      EmptyText,
      GarbageText }

\* What the outbound fetch can do: throw, or return a status and a body.
FetchOutcomes ==
    { [threw |-> TRUE, msg |-> "fetch failed", status |-> 0, body |-> EmptyText] }
    \cup { [threw |-> FALSE, msg |-> "", status |-> st, body |-> b] :
             st \in UpstreamStatuses, b \in UpstreamBodies }

NoOutcome == [threw |-> FALSE, msg |-> "", status |-> 0, body |-> EmptyText]
NoReply == [status |-> 0, body |-> EmptyText]
NotSettled == [kind |-> "none", hasResponse |-> FALSE, reply |-> NoReply]

Origins == {"page", "direct"}

\* A request on its way to the route.
Sent(inbound) ==
    [inbound |-> inbound, stage |-> "sent", calls |-> <<>>,
     upstream |-> NoOutcome, reply |-> NoReply]

RemoveAt(s, i) == SubSeq(s, 1, i - 1) \o SubSeq(s, i + 1, Len(s))

\* The requests in flight, of the page and of the other client.
PageReqs == {reqs["page"][i] : i \in DOMAIN reqs["page"]}
AllReqs == PageReqs \cup {reqs["direct"][i] : i \in DOMAIN reqs["direct"]}

(***************************************************************************)
(* State machine.                                                          *)
(***************************************************************************)
Init ==
    /\ symbol = "AAPL"
    /\ timeframe = "15m"
    /\ loading = FALSE
    /\ result = JNull
    /\ error = JStr("")
    /\ reqs = [o \in Origins |-> <<>>]
    /\ settled = NotSettled

\* onChange of the symbol input.
SetSymbol(typed) ==
    /\ symbol' = ToUpperCase(typed)
    /\ UNCHANGED <<timeframe, loading, result, error, reqs, settled>>

\* onChange of the timeframe select.
SetTimeframe(tf) ==
    /\ timeframe' = tf
    /\ UNCHANGED <<symbol, loading, result, error, reqs, settled>>

\* A click on the submit control: analyzeStock up to its await.
Submit ==
    /\ ~Disabled(loading, symbol)
    /\ Len(reqs["page"]) < MaxInFlight
    /\ LET st == AnalyzeStart(result, error) IN
       /\ loading' = st.loading
       /\ error' = st.error
       /\ result' = st.result
    /\ reqs' = [reqs EXCEPT !["page"] = Append(@, Sent(AxiosRequestBody(symbol, timeframe)))]
    /\ settled' = NotSettled
    /\ UNCHANGED <<symbol, timeframe>>

\* Another client posts a body to the route.
DirectSend(body) ==
    /\ reqs["direct"] = <<>>
    /\ reqs' = [reqs EXCEPT !["direct"] = Append(@, Sent(body))]
    /\ UNCHANGED <<symbol, timeframe, loading, result, error, settled>>

\* The route handles a request up to its reply or its outbound fetch.
RouteReceive(o, i) ==
    /\ reqs[o][i].stage = "sent"
    /\ LET r == PostReceive(reqs[o][i].inbound) IN
       reqs' = [reqs EXCEPT ![o][i] =
                   IF r.kind = "fetch"
                   THEN [@ EXCEPT !.stage = "fetching", !.calls = <<r.body>>]
                   ELSE [@ EXCEPT !.stage = "replied", !.reply = r.reply]]
    /\ UNCHANGED <<symbol, timeframe, loading, result, error, settled>>

\* The outbound fetch settles and the route finishes the request.
UpstreamReturns(o, i, outcome) ==
    /\ reqs[o][i].stage = "fetching"
    /\ reqs' = [reqs EXCEPT ![o][i] =
                   [@ EXCEPT !.stage = "replied", !.upstream = outcome,
                             !.reply = PostAfterFetch(outcome)]]
    /\ UNCHANGED <<symbol, timeframe, loading, result, error, settled>>

\* analyzeStock after the await, given how axios settled; `settled` records
\* how the last analyze call ended and the reply it got, if any.  The
\* continuation runs to the end of the finally block without yielding, and
\* its state updates are rendered together.
Settle(i, ax) ==
    /\ LET st == IF ax.resolved
                 THEN AnalyzeResolve(ax.data, error)
                 ELSE AnalyzeReject(ax.hasResponse, ax.data, result) IN
       /\ loading' = st.loading
       /\ error' = st.error
       /\ result' = st.result
    /\ settled' = [kind |-> IF ax.resolved THEN "resolved" ELSE "rejected",
                   hasResponse |-> ax.hasResponse, reply |-> reqs["page"][i].reply]
    /\ reqs' = [reqs EXCEPT !["page"] = RemoveAt(@, i)]
    /\ UNCHANGED <<symbol, timeframe>>

\* The route's reply reaches the page.
PageSettle(i) ==
    /\ reqs["page"][i].stage = "replied"
    /\ Settle(i, AxiosSettle(reqs["page"][i].reply))

\* The page's request fails before it reaches the route.
PageNetworkError(i) ==
    /\ reqs["page"][i].stage = "sent"
    /\ Settle(i, AxiosNetworkError)

\* The other client reads its reply.
DirectDone(i) ==
    /\ reqs["direct"][i].stage = "replied"
    /\ reqs' = [reqs EXCEPT !["direct"] = RemoveAt(@, i)]
    /\ UNCHANGED <<symbol, timeframe, loading, result, error, settled>>

Next ==
    \/ \E typed \in Typed : SetSymbol(typed)
    \/ \E tf \in Timeframes : SetTimeframe(tf)
    \/ Submit
    \/ \E body \in InboundBodies : DirectSend(body)
    \/ \E o \in Origins : \E i \in DOMAIN reqs[o] : RouteReceive(o, i)
    \/ \E o \in Origins : \E i \in DOMAIN reqs[o] : \E outcome \in FetchOutcomes :
           UpstreamReturns(o, i, outcome)
    \/ \E i \in DOMAIN reqs["page"] : PageSettle(i)
    \/ \E i \in DOMAIN reqs["page"] : PageNetworkError(i)
    \/ \E i \in DOMAIN reqs["direct"] : DirectDone(i)

Spec == Init /\ [][Next]_vars

\* The page's request is served: the route runs, the analysis service
\* answers, and the reply is delivered.
PageRequestStep ==
    \E i \in DOMAIN reqs["page"] :
        \/ RouteReceive("page", i)
        \/ \E outcome \in FetchOutcomes : UpstreamReturns("page", i, outcome)
        \/ PageSettle(i)

FairSpec == Spec /\ WF_vars(PageRequestStep)

(***************************************************************************)
(* Properties.                                                             *)
(***************************************************************************)
Replied(r) == r.stage = "replied"

\* The upstream answered request r with a status and a body.
Answered(r) == Replied(r) /\ r.calls # <<>> /\ ~r.upstream.threw

ErrorEnvelope(status, message) ==
    [status |-> status, body |-> JsonText(JObj([error |-> JStr(message)]))]

InternalError(message) == ErrorEnvelope(500, "Internal server error: " \o message)

SymbolRequired == ErrorEnvelope(400, "Symbol is required")

\* The `symbol` of an inbound JSON object body (Undefined when absent).
InboundSymbol(r) == Get(r.inbound.v, "symbol")

IsObjectBody(txt) == txt.t = "json" /\ txt.v.k = "object"

BlankStrings == {"", " "}

\* C1 as stated: a request whose symbol is absent, empty or whitespace-only
\* gets 400 "Symbol is required" and makes no outbound call.
C1_MissingOrBlankRefused ==
    \A r \in AllReqs :
        ( /\ r.stage # "sent"
          /\ IsObjectBody(r.inbound)
          /\ \/ InboundSymbol(r).k = "undefined"
             \/ InboundSymbol(r).k = "string" /\ InboundSymbol(r).s \in BlankStrings )
        => /\ r.calls = <<>>
           /\ r.reply = SymbolRequired

\* C1 amended: a request whose JSON object body has an absent, empty or
\* otherwise falsy (null, 0) symbol gets 400 "Symbol is required" and makes
\* no outbound call; a whitespace-only symbol is not missing and is
\* forwarded.
C1_FalsySymbolRefused ==
    \A r \in AllReqs :
        ( /\ r.stage # "sent"
          /\ IsObjectBody(r.inbound) )
        => /\ ( \/ InboundSymbol(r).k \in {"undefined", "null"}
                \/ InboundSymbol(r).k = "string" /\ InboundSymbol(r).s = ""
                \/ InboundSymbol(r).k = "number" /\ InboundSymbol(r).n = 0 )
              => /\ r.calls = <<>>
                 /\ r.reply = SymbolRequired
           /\ (InboundSymbol(r).k = "string" /\ InboundSymbol(r).s = " ")
              => Len(r.calls) = 1

C1_Witness ==
    \E r \in AllReqs :
        /\ Replied(r)
        /\ IsObjectBody(r.inbound)
        /\ InboundSymbol(r) = JStr("")
        /\ r.reply.status = 400

\* The `error` field of an upstream JSON object body, Undefined otherwise.
UpstreamError(r) ==
    IF IsObjectBody(r.upstream.body)
    THEN Get(r.upstream.body.v, "error")
    ELSE Undefined

\* C2 as stated: for an upstream status >= 400, whatever the body, the
\* reply's status is the upstream status and its error is the upstream error
\* field when present, else one fixed fallback string.
C2_ErrorStatusMirrored ==
    \E fallback \in {"Failed to analyze stock", "Unknown error"} :
        \A r \in AllReqs :
            (Answered(r) /\ r.upstream.status >= 400)
            => /\ r.reply.status = r.upstream.status
               /\ r.reply.body =
                      JsonText(JObj([error |-> IF UpstreamError(r).k # "undefined"
                                               THEN UpstreamError(r)
                                               ELSE JStr(fallback)]))

\* C3 as stated: for an upstream 2xx status and any body, empty and non-JSON
\* bodies included, the reply is 200 with the upstream body.
C3_SuccessRelayedAnyBody ==
    \A r \in AllReqs :
        (Answered(r) /\ ResponseOk(r.upstream.status))
        => /\ r.reply.status = 200
           /\ r.reply.body = r.upstream.body

\* C3 amended: for an upstream 2xx status whose body is JSON, the reply is
\* 200 with a body deep-equal to the upstream body; an empty or non-JSON
\* upstream body gives 500 with the parse error's message.
C3_SuccessRelayedJson ==
    \A r \in AllReqs :
        (Answered(r) /\ ResponseOk(r.upstream.status))
        => CASE r.upstream.body.t = "json" ->
                    /\ r.reply.status = 200
                    /\ r.reply.body.t = "json"
                    /\ r.reply.body.v = r.upstream.body.v
             [] r.upstream.body.t = "empty" ->
                    r.reply = InternalError("Unexpected end of JSON input")
             [] OTHER ->
                    r.reply = InternalError("Unexpected token")

C3_Witness ==
    \E r \in AllReqs :
        /\ Answered(r)
        /\ r.upstream.status = 201
        /\ r.upstream.body = JsonText(AnalysisResult)
        /\ r.reply.status = 200

\* The message of the SyntaxError that parsing a non-JSON body raises.
SyntaxErrorMessage(txt) ==
    IF txt.t = "empty" THEN "Unexpected end of JSON input" ELSE "Unexpected token"

\* C4 as stated: any exception raised while the route handles a request
\* (inbound body not JSON, outbound fetch throwing, upstream body parse
\* failure) gives 500 "Internal server error: " + message.
C4_EveryExceptionIs500 ==
    \A r \in AllReqs :
        Replied(r)
        => /\ r.inbound.t # "json"
              => r.reply = InternalError(SyntaxErrorMessage(r.inbound))
           /\ (r.calls # <<>> /\ r.upstream.threw)
              => r.reply = InternalError(r.upstream.msg)
           /\ (Answered(r) /\ r.upstream.body.t # "json")
              => r.reply = InternalError(SyntaxErrorMessage(r.upstream.body))

\* C4 amended: every exception that reaches the route's catch block (inbound
\* body not JSON or null, outbound fetch throwing, parse failure of a 2xx
\* upstream body, a non-2xx upstream body of JSON null) gives 500 "Internal
\* server error: " + message, and every handled request ends with a reply;
\* a parse failure of a non-2xx upstream body is absorbed instead: the reply
\* has the upstream status and the error "Unknown error".
C4_CaughtExceptionIs500 ==
    \A r \in AllReqs :
        Replied(r)
        => /\ r.reply.status \in 200..599
           /\ r.inbound.t # "json"
              => r.reply = InternalError(SyntaxErrorMessage(r.inbound))
           /\ r.inbound = JsonText(JNull)
              => r.reply =
                     InternalError("Cannot destructure property 'symbol' of null")
           /\ (r.calls # <<>> /\ r.upstream.threw)
              => r.reply = InternalError(r.upstream.msg)
           /\ (Answered(r) /\ r.upstream.body.t # "json")
              => r.reply =
                     IF ResponseOk(r.upstream.status)
                     THEN InternalError(SyntaxErrorMessage(r.upstream.body))
                     ELSE ErrorEnvelope(r.upstream.status, "Unknown error")
           /\ ( /\ Answered(r)
                /\ ~ResponseOk(r.upstream.status)
                /\ r.upstream.body = JsonText(JNull) )
              => r.reply =
                     InternalError("Cannot read properties of null (reading 'error')")

C4_Witness ==
    \E r \in AllReqs :
        /\ Replied(r)
        /\ r.calls # <<>>
        /\ r.upstream.threw
        /\ r.reply.status = 500

\* The value carried by the reply the last analyze call got.
SettledData == settled.reply.body.v

\* C5: after an analyze call's request resolves, loading is false, result is
\* the exact response body and error is empty; after it rejects, loading is
\* false, result is absent and error is the server-supplied error message if
\* there is one, else 'Failed to analyze stock'.
C5_AnalyzeOutcome ==
    /\ settled.kind = "resolved"
       => /\ loading = FALSE
          /\ result = SettledData
          /\ error = JStr("")
    /\ settled.kind = "rejected"
       => /\ loading = FALSE
          /\ result = JNull
          /\ error # JStr("")
          /\ error = IF /\ settled.hasResponse
                        /\ IsObjectBody(settled.reply.body)
                        /\ Truthy(Get(SettledData, "error"))
                     THEN Get(SettledData, "error")
                     ELSE JStr("Failed to analyze stock")

C5_Witness ==
    /\ settled.kind = "resolved"
    /\ result = AnalysisResult
    /\ loading = FALSE

\* C6 as stated: the body of the outbound call equals the inbound body, also
\* for a body with no timeframe or with extra fields.
C6_OutboundEqualsInbound ==
    \A r \in AllReqs :
        r.calls # <<>>
        => /\ Len(r.calls) = 1
           /\ r.calls[1] = r.inbound

\* C6 amended: the body of the (single) outbound call holds exactly the
\* inbound body's symbol and timeframe, each with its inbound value and
\* timeframe left out when the inbound body has none; every other inbound
\* field is dropped.
C6_OutboundSymbolTimeframe ==
    \A r \in AllReqs :
        r.calls # <<>>
        => /\ Len(r.calls) = 1
           /\ IsObjectBody(r.inbound)
           /\ IsObjectBody(r.calls[1])
           /\ DOMAIN r.calls[1].v.f =
                  DOMAIN r.inbound.v.f \cap {"symbol", "timeframe"}
           /\ \A field \in DOMAIN r.calls[1].v.f :
                  r.calls[1].v.f[field] = r.inbound.v.f[field]

C6_Witness ==
    \E r \in AllReqs :
        /\ r.calls # <<>>
        /\ IsObjectBody(r.inbound)
        /\ "extra" \in DOMAIN r.inbound.v.f
        /\ "extra" \notin DOMAIN r.calls[1].v.f

\* C7: at most one analysis request of the page is in flight at any time,
\* and one is in flight exactly while loading is true.
C7_OneInFlight ==
    /\ Len(reqs["page"]) <= 1
    /\ loading <=> reqs["page"] # <<>>

C7_Witness ==
    \E r \in PageReqs :
        /\ r.stage = "fetching"
        /\ symbol # ""
        /\ symbol # InboundSymbol(r).s

\* C8: every analyze call that sets loading to true is eventually followed
\* by loading being false, given that its request eventually completes.
C8_LoadingClears == loading ~> ~loading

C8_Witness ==
    /\ loading
    /\ \E r \in PageReqs : Replied(r) /\ r.reply.status = 500

\* C9: every request the page sends carries a non-empty symbol, and the
\* route never answers a page request with 400 "Symbol is required".
C9_PageSymbolNonEmpty ==
    \A r \in PageReqs :
        /\ IsObjectBody(r.inbound)
        /\ InboundSymbol(r).k = "string"
        /\ InboundSymbol(r).s # ""
        /\ r.reply # SymbolRequired

C9_Witness ==
    \E r \in PageReqs :
        /\ Replied(r)
        /\ InboundSymbol(r) = JStr(" ")
        /\ symbol = ""

\* C10: result and error are never both set, and while loading is true
\* both are cleared.
C10_ResultErrorExclusive ==
    /\ ~(result # JNull /\ error # JStr(""))
    /\ loading => (result = JNull /\ error = JStr(""))

C10_Witness ==
    /\ loading = FALSE
    /\ result = JNull
    /\ error = JStr("rate limited")

====
